---- MODULE Spec2Model ----
(***************************************************************************)
(* Model of sensu-rhose-handler (main.go): the handler's configuration     *)
(* check (checkArgs), the token resolution with its process-wide cache     *)
(* (getToken, cachedToken, used) and the dispatch of one event             *)
(* (sendMessage).                                                          *)
(*                                                                         *)
(* The handler functions are run on the package-level variables config,    *)
(* cachedToken and used; the model lets the host hand MaxEvents events to  *)
(* checkArgs/sendMessage one after the other, so that the cache outlives a *)
(* dispatch as the package-level variables do.  URLs are taken to be       *)
(* well-formed whenever they are non-empty.  The environment is an input   *)
(* of each checkArgs call.                                                 *)
(*                                                                         *)
(* Spec is the program as built: one handler thread and the embedded key   *)
(* set, which parses.  SpecKeys is the same handler built with key         *)
(* material that keyfunc.NewJSON may refuse.  SpecConc is a host that runs *)
(* sendMessage for NThreads events at once on the same package-level       *)
(* variables, one step per access to them.                                 *)
(***************************************************************************)
EXTENDS Integers, Sequences, FiniteSets, TLC

\* ---------------------------------------------------------------- bounds
MaxEvents == 2      \* events handed to the handler in one process
MaxTime == 1        \* the clock runs over 0..MaxTime
NThreads == 2       \* sendMessage calls a concurrent host runs at once

\* ------------------------------------------------------------ value sets
\* a flag or environment value is either missing ("") or supplied
ArgStr == {"", "arg"}
EnvStr == {"", "env"}

defaultAuthenticationEnabled == "no"

\* values given for authentication-enabled: the default, the one getToken
\* takes for enabled, and any other string
AuthValues == {"no", "yes", "true"}

\* HandlerConfig as left by the option parser, before checkArgs
Configs ==
    [rhoseURL : ArgStr, clientID : ArgStr, clientSecret : ArgStr,
     ssoURL : ArgStr, authenticationEnabled : AuthValues]

\* the environment variables checkArgs reads with os.Getenv
Envs ==
    [RHOSE_WEBHOOK_URL : EnvStr, AUTHENTICATION_ENABLED : {""} \cup AuthValues,
     RHOSE_CLIENT_ID : EnvStr, RHOSE_CLIENT_SECRET : EnvStr, SSO_URL : EnvStr]

\* An access token string, by what jwt.Parse makes of it: the empty string
\* (what a body without access_token decodes to) is not a signed structure;
\* a "jws" names a key by kid, carries a signature that verifies or not, and
\* the claims nbf and exp (0: claim absent).
NoToken == [form |-> "empty", kid |-> "none", sigOK |-> FALSE, nbf |-> 0, exp |-> 0]

Jws(kid, sigOK, nbf, exp) ==
    [form |-> "jws", kid |-> kid, sigOK |-> sigOK, nbf |-> nbf, exp |-> exp]

AccessTokens ==
    {NoToken, Jws("unknown", TRUE, 0, 0), Jws("known", FALSE, 0, 0),
     Jws("known", TRUE, 0, 0), Jws("known", TRUE, 1, 0)}
    \cup {Jws("known", TRUE, 0, e) : e \in 1..MaxTime}

\* AccessTokenResponse: only AccessToken is ever read back
AccessTokenResponse(t) == [ptr |-> "set", AccessToken |-> t]

\* cachedToken == nil
Nil == [ptr |-> "nil"]

\* no request sent to the identity provider
NoRequest == [made |-> FALSE]

\* the Authorization header of the delivery request: absent, or Bearer t
NoHeader == [present |-> FALSE]

Bearer(t) == [present |-> TRUE, token |-> t]

\* what client.Do can come back with: a response with a success status, a
\* response with another status (err == nil), no response and an error, or
\* a response together with an error (a refused redirect)
DeliveryOutcomes == {"2xx", "non2xx", "transport", "redirect"}

VARIABLES
    config,       \* HandlerConfig (package-level)
    cachedToken,  \* *AccessTokenResponse (package-level), Nil or a record
    used,         \* "no" | "yes" (package-level)
    now,          \* wall clock
    pc,           \* position of the handler
    call,         \* which getToken call of sendMessage is running: 0, 1, 2
    token,        \* sendMessage's local variable token
    handled,      \* events the handler has finished with
    result,       \* what the last finished dispatch returned
    acqLog,       \* Acquirer calls of the current dispatch, in order
    valLog,       \* Validator (jwt.Parse) calls of the current dispatch
    ssoReq,       \* the last request sent to the identity provider
    sent,         \* delivery requests of the current dispatch, in order
    resp,         \* what came back for the delivery request
    how,          \* how each getToken call of the current dispatch resolved
    slot0,        \* cachedToken as the current dispatch found it
    argsErr,      \* the error of the last checkArgs call ("nil" for none)
    jwksLoads,    \* keyfunc.NewJSON calls of the current dispatch
    jwksOK,       \* the embedded jwksJSON is one keyfunc.NewJSON accepts
    tpc,          \* concurrent host: position of each sendMessage call
    tcall,        \* concurrent host: its running getToken call, 1 or 2
    ttoken,       \* concurrent host: its local variable token
    tread,        \* concurrent host: the token it handed to jwt.Parse
    tsaw,         \* concurrent host: writes of the slot before it read it
    tafter,       \* concurrent host: the slot as its second getToken call left it
    tsent,        \* concurrent host: its delivery request
    tres,         \* concurrent host: what its sendMessage returned
    wlog          \* concurrent host: the writes of the slot, in order

\* the state of the concurrent host
conc == <<tpc, tcall, ttoken, tread, tsaw, tafter, tsent, tres, wlog>>

vars == <<config, cachedToken, used, now, pc, call, token, handled,
          result, acqLog, valLog, ssoReq, sent, resp, how, slot0, argsErr,
          jwksLoads, jwksOK, conc>>

Threads == 1..NThreads

\* no delivery request sent
NoSend == [made |-> FALSE]

\* ----------------------------------------------------------- checkArgs
\* checkArgs as a function of the configuration and the environment:
\* the configuration it leaves and the error it returns ("nil" for none)
checkArgs(c, e) ==
    LET c1 == IF e.RHOSE_WEBHOOK_URL # ""
              THEN [c EXCEPT !.rhoseURL = e.RHOSE_WEBHOOK_URL] ELSE c
        inBranch == e.AUTHENTICATION_ENABLED # ""
                    /\ c1.authenticationEnabled = defaultAuthenticationEnabled
        c2 == IF inBranch
              THEN [c1 EXCEPT
                      !.authenticationEnabled = e.AUTHENTICATION_ENABLED,
                      !.clientID = IF e.RHOSE_CLIENT_ID # ""
                                   THEN e.RHOSE_CLIENT_ID ELSE @,
                      !.clientSecret = IF e.RHOSE_CLIENT_SECRET # ""
                                       THEN e.RHOSE_CLIENT_SECRET ELSE @,
                      !.ssoURL = IF e.SSO_URL # "" THEN e.SSO_URL ELSE @]
              ELSE c1
        err == IF inBranch /\ c2.clientID = "" THEN "client-id required"
               ELSE IF inBranch /\ c2.clientSecret = "" THEN "client-secret required"
               ELSE IF inBranch /\ c2.ssoURL = "" THEN "sso-url required"
               ELSE IF c2.rhoseURL = "" THEN "webhook-url required"
               ELSE "nil"
    IN  [config |-> c2, err |-> err]

\* ------------------------------------------------------------- validator
\* keyfunc.NewJSON on the embedded key set followed by jwt.Parse: the token
\* decodes, its kid is in the key set, the signature verifies and the
\* registered time claims hold at time t; err == nil exactly when Valid
tokenValid(t, at) ==
    /\ at.form = "jws"
    /\ at.kid = "known"
    /\ at.sigOK
    /\ (at.exp = 0 \/ t < at.exp)
    /\ at.nbf <= t

\* mutant: the branch is taken on err != nil instead of err == nil
cacheHitInverted(ct, t) == ct # Nil /\ ~tokenValid(t, ct.AccessToken)

\* the branch of getToken that returns the cached token
cacheHit(ct, t) == ct # Nil /\ tokenValid(t, ct.AccessToken)

\* mutant: anything but the default counts as enabled
authOnUnlessDefault(c) == c.authenticationEnabled # defaultAuthenticationEnabled

\* getToken and sendMessage take authentication for enabled on "yes" only
authOn(c) == c.authenticationEnabled = "yes"

\* --------------------------------------------------------------- state
\* no concurrent host
ConcOff ==
    /\ tpc = [th \in Threads |-> "off"]
    /\ tcall = [th \in Threads |-> 0]
    /\ ttoken = [th \in Threads |-> NoToken]
    /\ tread = [th \in Threads |-> NoToken]
    /\ tsaw = [th \in Threads |-> 0]
    /\ tafter = [th \in Threads |-> Nil]
    /\ tsent = [th \in Threads |-> NoSend]
    /\ tres = [th \in Threads |-> "none"]
    /\ wlog = <<>>

Init ==
    /\ config \in Configs
    /\ cachedToken = Nil
    /\ used = "no"
    /\ now = 0
    /\ pc = "idle"
    /\ call = 0
    /\ token = NoToken
    /\ handled = 0
    /\ result = "none"
    /\ acqLog = <<>>
    /\ valLog = <<>>
    /\ ssoReq = NoRequest
    /\ sent = <<>>
    /\ resp = "none"
    /\ how = <<>>
    /\ slot0 = Nil
    /\ argsErr = "nil"
    /\ jwksLoads = 0
    /\ jwksOK = TRUE
    /\ ConcOff

\* time passes while the process lives
Tick ==
    /\ pc # "crashed"
    /\ now < MaxTime
    /\ now' = now + 1
    /\ UNCHANGED <<config, cachedToken, used, pc, call, token, handled,
                   result, acqLog, valLog, ssoReq, sent, resp, how, slot0, argsErr,
                   jwksLoads, jwksOK, conc>>

\* the host runs checkArgs on the next event and, when it returns nil,
\* enters sendMessage, which calls getToken first; e is what os.Getenv
\* gives checkArgs for the five variables it reads
CheckArgs ==
    /\ pc = "idle"
    /\ handled < MaxEvents
    /\ \E e \in Envs : LET r == checkArgs(config, e) IN
         /\ config' = r.config
         /\ argsErr' = r.err
         /\ IF r.err # "nil"
            THEN /\ result' = "error"
                 /\ handled' = handled + 1
                 /\ pc' = "idle"
                 /\ call' = 0
            ELSE /\ result' = "none"
                 /\ handled' = handled
                 /\ pc' = "getToken"
                 /\ call' = 1
    /\ token' = NoToken
    /\ acqLog' = <<>>
    /\ valLog' = <<>>
    /\ ssoReq' = NoRequest
    /\ sent' = <<>>
    /\ resp' = "none"
    /\ how' = <<>>
    /\ slot0' = cachedToken
    /\ jwksLoads' = 0
    /\ UNCHANGED <<cachedToken, used, now, jwksOK, conc>>

\* mutant: sendMessage builds the request after its first getToken call
ReturnedOnce(t, kind) ==
    /\ token' = t
    /\ how' = Append(how, kind)
    /\ pc' = "deliver"
    /\ call' = 0
    /\ UNCHANGED <<handled, result>>

\* getToken returned t without error: sendMessage goes on to its second
\* getToken call, or from the second one to building the request
Returned(t, kind) ==
    /\ token' = t
    /\ how' = Append(how, kind)
    /\ IF call = 1
       THEN pc' = "getToken" /\ call' = 2
       ELSE pc' = "deliver" /\ call' = 0
    /\ UNCHANGED <<handled, result>>

\* mutant: the error of getToken is dropped and sendMessage goes on with
\* the empty token
FailedSwallowed ==
    /\ token' = NoToken
    /\ IF call = 1
       THEN pc' = "getToken" /\ call' = 2
       ELSE pc' = "deliver" /\ call' = 0
    /\ UNCHANGED <<result, handled, how>>

\* mutant: after an error of getToken sendMessage calls it again
FailedRetry ==
    /\ pc' = "getToken"
    /\ call' = call
    /\ UNCHANGED <<result, handled, token, how>>

\* getToken returned an error: sendMessage returns it
Failed ==
    /\ result' = "error"
    /\ handled' = handled + 1
    /\ pc' = "idle"
    /\ call' = 0
    /\ UNCHANGED <<token, how>>

\* getToken, authentication not "yes": return "", nil
GetTokenDisabled ==
    /\ pc = "getToken"
    /\ ~authOn(config)
    /\ Returned(NoToken, "disabled")
    /\ UNCHANGED <<config, cachedToken, used, now, acqLog, valLog,
                   ssoReq, sent, resp, slot0, argsErr,
                   jwksLoads, jwksOK, conc>>

\* what a cache hit leaves in used
usedOnHit == "yes"

\* mutant: a cache hit returns the empty token
hitTokenEmpty(ct) == NoToken

\* what a cache hit returns
hitToken(ct) == ct.AccessToken

\* getToken, cachedToken != nil and jwt.Parse accepts it: used = "yes",
\* return cachedToken.AccessToken
GetTokenCached ==
    /\ pc = "getToken"
    /\ authOn(config)
    /\ cacheHit(cachedToken, now)
    /\ jwksOK
    /\ jwksLoads' = jwksLoads + 1
    /\ valLog' = Append(valLog, [call |-> call, valid |-> TRUE])
    /\ used' = usedOnHit
    /\ Returned(hitToken(cachedToken), "cached")
    /\ UNCHANGED <<config, cachedToken, now, acqLog, ssoReq, sent, resp,
                   slot0, argsErr, jwksOK, conc>>

\* jwt.Parse runs on a populated slot only
validatorRuns(ct) == ct # Nil

\* mutant: the error of jwt.Parse is returned to sendMessage
GetTokenRequestFatal ==
    /\ pc = "getToken"
    /\ authOn(config)
    /\ ~cacheHit(cachedToken, now)
    /\ validatorRuns(cachedToken) => jwksOK
    /\ jwksLoads' = IF validatorRuns(cachedToken) THEN jwksLoads + 1 ELSE jwksLoads
    /\ IF validatorRuns(cachedToken)
       THEN /\ valLog' = Append(valLog, [call |-> call, valid |-> FALSE])
            /\ Failed
            /\ UNCHANGED <<ssoReq, acqLog>>
       ELSE /\ valLog' = valLog
            /\ ssoReq' = [made |-> TRUE, url |-> config.ssoURL,
                          grant_type |-> "client_credentials",
                          client_id |-> config.clientID,
                          client_secret |-> config.clientSecret]
            /\ acqLog' = Append(acqLog,
                           [call |-> call, outcome |-> "pending", body |-> NoToken])
            /\ pc' = "acquiring"
            /\ UNCHANGED <<call, token, handled, result, how>>
    /\ UNCHANGED <<config, cachedToken, used, now, sent, resp, slot0, argsErr,
                   jwksOK, conc>>

\* getToken, cachedToken == nil or jwt.Parse rejects it: build the
\* client-credentials request and send it with client.Do
GetTokenRequest ==
    /\ pc = "getToken"
    /\ authOn(config)
    /\ ~cacheHit(cachedToken, now)
    /\ validatorRuns(cachedToken) => jwksOK
    /\ jwksLoads' = IF validatorRuns(cachedToken) THEN jwksLoads + 1 ELSE jwksLoads
    /\ valLog' = IF validatorRuns(cachedToken)
                 THEN Append(valLog, [call |-> call, valid |-> FALSE])
                 ELSE valLog
    /\ ssoReq' = [made |-> TRUE, url |-> config.ssoURL,
                  grant_type |-> "client_credentials",
                  client_id |-> config.clientID,
                  client_secret |-> config.clientSecret]
    /\ acqLog' = Append(acqLog,
                   [call |-> call, outcome |-> "pending", body |-> NoToken])
    /\ pc' = "acquiring"
    /\ UNCHANGED <<config, cachedToken, used, now, call, token, handled,
                   result, sent, resp, how, slot0, argsErr, jwksOK, conc>>

\* getToken, cachedToken != nil and keyfunc.NewJSON refuses the embedded
\* key set: log.Fatalf ends the process
JwksFatal ==
    /\ pc = "getToken"
    /\ authOn(config)
    /\ cachedToken # Nil
    /\ ~jwksOK
    /\ jwksLoads' = jwksLoads + 1
    /\ result' = "fatal"
    /\ handled' = handled + 1
    /\ pc' = "crashed"
    /\ UNCHANGED <<config, cachedToken, used, now, call, token, acqLog, valLog,
                   ssoReq, sent, resp, how, slot0, argsErr, jwksOK, conc>>

\* the pending Acquirer call comes back with outcome o (and, decoded, the
\* access token b)
Settle(o, b) ==
    [acqLog EXCEPT ![Len(acqLog)] = [call |-> @.call, outcome |-> o, body |-> b]]

\* client.Do returned an error: getToken returns it
AcquireTransportFail ==
    /\ pc = "acquiring"
    /\ acqLog' = Settle("transport", NoToken)
    /\ Failed
    /\ UNCHANGED <<config, cachedToken, used, now, valLog, ssoReq, sent,
                   resp, slot0, argsErr,
                   jwksLoads, jwksOK, conc>>

\* mutant: the record is stored before the decode error is looked at
AcquireDecodeFailStores ==
    /\ pc = "acquiring"
    /\ acqLog' = Settle("decode", NoToken)
    /\ cachedToken' = AccessTokenResponse(NoToken)
    /\ Failed
    /\ UNCHANGED <<config, used, now, valLog, ssoReq, sent, resp, slot0, argsErr,
                   jwksLoads, jwksOK, conc>>

\* the response body does not decode: getToken returns the error
AcquireDecodeFail ==
    /\ pc = "acquiring"
    /\ acqLog' = Settle("decode", NoToken)
    /\ Failed
    /\ UNCHANGED <<config, cachedToken, used, now, valLog, ssoReq, sent,
                   resp, slot0, argsErr,
                   jwksLoads, jwksOK, conc>>

\* mutant: the slot is filled only while it is empty
putIfEmpty(old, rec) == IF old = Nil THEN rec ELSE old

\* mutant: the decoded response is returned but not stored
putNever(old, rec) == old

\* cachedToken = &accessTokenResponse: the slot after a decoded response
put(old, rec) == rec

\* mutant: an acquisition marks the token as not reused
usedOnAcquireReset(u) == "no"

\* getToken after a decoded response does not assign used
usedOnAcquire(u) == u

\* the response body decodes into an AccessTokenResponse: store it in
\* cachedToken and return its AccessToken
AcquireOk ==
    /\ pc = "acquiring"
    /\ \E at \in AccessTokens :
         /\ cachedToken' = put(cachedToken, AccessTokenResponse(at))
         /\ acqLog' = Settle("ok", at)
         /\ Returned(at, "acquired")
    /\ used' = usedOnAcquire(used)
    /\ UNCHANGED <<config, now, valLog, ssoReq, sent, resp, slot0, argsErr,
                   jwksLoads, jwksOK, conc>>

\* mutant: the header is built without the token
authHeaderBlank(c, t) == IF authOn(c) THEN Bearer(NoToken) ELSE NoHeader

\* the Authorization header sendMessage puts on the delivery request
authHeader(c, t) == IF authOn(c) THEN Bearer(t) ELSE NoHeader

\* sendMessage after both getToken calls: build the cloud event with the
\* extension refreshed = used, add the Authorization header when
\* authentication is "yes", and send the request with client.Do
Deliver ==
    /\ pc = "deliver"
    /\ sent' = Append(sent,
                 [url |-> config.rhoseURL,
                  refreshed |-> used,
                  authorization |-> authHeader(config, token)])
    /\ pc' = "delivering"
    /\ UNCHANGED <<config, cachedToken, used, now, call, token, handled,
                   result, acqLog, valLog, ssoReq, resp, how, slot0, argsErr,
                   jwksLoads, jwksOK, conc>>

\* what sendMessage does with the outcome o of client.Do: it reads
\* res.StatusCode before it looks at err, so a nil res panics; otherwise
\* it returns an error exactly when err != nil
sendResult(o) ==
    IF o = "transport" THEN "panic"
    ELSE IF o = "redirect" THEN "error"
    ELSE "nil"

DeliverRespond ==
    /\ pc = "delivering"
    /\ \E o \in DeliveryOutcomes :
         /\ resp' = o
         /\ result' = sendResult(o)
         /\ pc' = IF sendResult(o) = "panic" THEN "crashed" ELSE "idle"
    /\ handled' = handled + 1
    /\ UNCHANGED <<config, cachedToken, used, now, call, token, acqLog,
                   valLog, ssoReq, sent, how, slot0, argsErr,
                   jwksLoads, jwksOK, conc>>

Next ==
    \/ Tick
    \/ CheckArgs
    \/ GetTokenDisabled
    \/ GetTokenCached
    \/ GetTokenRequest
    \/ AcquireTransportFail
    \/ AcquireDecodeFail
    \/ AcquireOk
    \/ Deliver
    \/ DeliverRespond

Spec == Init /\ [][Next]_vars

\* ------------------------------------------- key material that may not parse
\* the handler built with any key material in jwksJSON
InitKeys ==
    /\ config \in Configs
    /\ cachedToken = Nil
    /\ used = "no"
    /\ now = 0
    /\ pc = "idle"
    /\ call = 0
    /\ token = NoToken
    /\ handled = 0
    /\ result = "none"
    /\ acqLog = <<>>
    /\ valLog = <<>>
    /\ ssoReq = NoRequest
    /\ sent = <<>>
    /\ resp = "none"
    /\ how = <<>>
    /\ slot0 = Nil
    /\ argsErr = "nil"
    /\ jwksLoads = 0
    /\ jwksOK \in BOOLEAN
    /\ ConcOff

NextKeys ==
    \/ Tick
    \/ CheckArgs
    \/ GetTokenDisabled
    \/ GetTokenCached
    \/ GetTokenRequest
    \/ JwksFatal
    \/ AcquireTransportFail
    \/ AcquireDecodeFail
    \/ AcquireOk
    \/ Deliver
    \/ DeliverRespond

SpecKeys == InitKeys /\ [][NextKeys]_vars

\* ------------------------------------------------------ concurrent host
\* A host that calls sendMessage for NThreads events at once.  getToken and
\* sendMessage take no lock, so the calls interleave at every access to
\* cachedToken and used; each such access is one step here and reads the
\* last value written.

\* the state of the single handler thread, unused by the concurrent host
seq == <<pc, call, token, handled, result, acqLog, valLog, ssoReq, sent,
         resp, how, slot0, argsErr, jwksLoads>>

\* configurations checkArgs has accepted
ConcConfigs ==
    {c \in Configs : /\ c.rhoseURL # "" /\ c.clientID # ""
                     /\ c.clientSecret # "" /\ c.ssoURL # ""}

\* tokens the identity provider hands out: two that jwt.Parse accepts and
\* one it rejects
ConcTokens ==
    {Jws("known", TRUE, 0, 0), Jws("known", TRUE, 0, MaxTime),
     Jws("known", FALSE, 0, 0)}

InitConc ==
    /\ config \in ConcConfigs
    /\ cachedToken = Nil
    /\ used = "no"
    /\ now = 0
    /\ pc = "idle"
    /\ call = 0
    /\ token = NoToken
    /\ handled = 0
    /\ result = "none"
    /\ acqLog = <<>>
    /\ valLog = <<>>
    /\ ssoReq = NoRequest
    /\ sent = <<>>
    /\ resp = "none"
    /\ how = <<>>
    /\ slot0 = Nil
    /\ argsErr = "nil"
    /\ jwksLoads = 0
    /\ jwksOK = TRUE
    /\ tpc = [th \in Threads |-> "getToken"]
    /\ tcall = [th \in Threads |-> 1]
    /\ ttoken = [th \in Threads |-> NoToken]
    /\ tread = [th \in Threads |-> NoToken]
    /\ tsaw = [th \in Threads |-> 0]
    /\ tafter = [th \in Threads |-> Nil]
    /\ tsent = [th \in Threads |-> NoSend]
    /\ tres = [th \in Threads |-> "none"]
    /\ wlog = <<>>

\* getToken of thread th returns t without error, leaving the slot as after
CReturned(th, t, after) ==
    /\ ttoken' = [ttoken EXCEPT ![th] = t]
    /\ IF tcall[th] = 1
       THEN /\ tpc' = [tpc EXCEPT ![th] = "getToken"]
            /\ tcall' = [tcall EXCEPT ![th] = 2]
            /\ tafter' = tafter
       ELSE /\ tpc' = [tpc EXCEPT ![th] = "deliver"]
            /\ tcall' = [tcall EXCEPT ![th] = 0]
            /\ tafter' = [tafter EXCEPT ![th] = after]

\* getToken, authentication not "yes"
CGetTokenDisabled ==
    \E th \in Threads :
        /\ tpc[th] = "getToken"
        /\ ~authOn(config)
        /\ CReturned(th, NoToken, cachedToken)
        /\ UNCHANGED <<config, cachedToken, used, now, jwksOK, seq, tread,
                       tsaw, tsent, tres, wlog>>

\* getToken reads cachedToken for the nil test
CReadSlot ==
    \E th \in Threads :
        /\ tpc[th] = "getToken"
        /\ authOn(config)
        /\ tsaw' = [tsaw EXCEPT ![th] = Len(wlog)]
        /\ tpc' = [tpc EXCEPT ![th] = IF cachedToken = Nil THEN "acquiring"
                                      ELSE "parse"]
        /\ UNCHANGED <<config, cachedToken, used, now, jwksOK, seq, tcall,
                       ttoken, tread, tafter, tsent, tres, wlog>>

\* getToken reads cachedToken.AccessToken and hands it to jwt.Parse
CParse ==
    \E th \in Threads :
        /\ tpc[th] = "parse"
        /\ tread' = [tread EXCEPT ![th] = cachedToken.AccessToken]
        /\ tpc' = [tpc EXCEPT ![th] =
                     IF tokenValid(now, cachedToken.AccessToken) THEN "hit"
                     ELSE "acquiring"]
        /\ UNCHANGED <<config, cachedToken, used, now, jwksOK, seq, tcall,
                       ttoken, tsaw, tafter, tsent, tres, wlog>>

\* getToken after jwt.Parse accepted: used = "yes", return
\* cachedToken.AccessToken, which the build may read again or keep from
\* the read for jwt.Parse
CHit ==
    \E th \in Threads :
        /\ tpc[th] = "hit"
        /\ used' = usedOnHit
        /\ \E t \in {tread[th], hitToken(cachedToken)} :
             CReturned(th, t, cachedToken)
        /\ UNCHANGED <<config, cachedToken, now, jwksOK, seq, tread, tsaw,
                       tsent, tres, wlog>>

\* the Acquirer call of thread th fails: getToken and sendMessage return
\* the error
CAcquireFail ==
    \E th \in Threads :
        /\ tpc[th] = "acquiring"
        /\ tpc' = [tpc EXCEPT ![th] = "done"]
        /\ tres' = [tres EXCEPT ![th] = "error"]
        /\ UNCHANGED <<config, cachedToken, used, now, jwksOK, seq, tcall,
                       ttoken, tread, tsaw, tafter, tsent, wlog>>

\* the Acquirer call of thread th decodes: cachedToken = &accessTokenResponse
CAcquireOk ==
    \E th \in Threads :
        /\ tpc[th] = "acquiring"
        /\ \E at \in ConcTokens :
             /\ cachedToken' = put(cachedToken, AccessTokenResponse(at))
             /\ CReturned(th, at, AccessTokenResponse(at))
        /\ wlog' = Append(wlog, [th |-> th, saw |-> tsaw[th]])
        /\ UNCHANGED <<config, used, now, jwksOK, seq, tread, tsaw, tsent, tres>>

\* sendMessage of thread th reads used for the extension and sends the
\* request
CDeliver ==
    \E th \in Threads :
        /\ tpc[th] = "deliver"
        /\ tsent' = [tsent EXCEPT ![th] =
                       [made |-> TRUE, refreshed |-> used,
                        authorization |-> authHeader(config, ttoken[th])]]
        /\ tpc' = [tpc EXCEPT ![th] = "delivering"]
        /\ UNCHANGED <<config, cachedToken, used, now, jwksOK, seq, tcall,
                       ttoken, tread, tsaw, tafter, tres, wlog>>

\* client.Do of thread th comes back; a panic ends the whole process
CDeliverRespond ==
    \E th \in Threads :
        /\ tpc[th] = "delivering"
        /\ \E o \in DeliveryOutcomes :
             /\ tres' = [tres EXCEPT ![th] = sendResult(o)]
             /\ tpc' = IF sendResult(o) = "panic"
                       THEN [u \in Threads |-> "crashed"]
                       ELSE [tpc EXCEPT ![th] = "done"]
        /\ UNCHANGED <<config, cachedToken, used, now, jwksOK, seq, tcall,
                       ttoken, tread, tsaw, tafter, tsent, wlog>>

NextConc ==
    \/ CGetTokenDisabled
    \/ CReadSlot
    \/ CParse
    \/ CHit
    \/ CAcquireFail
    \/ CAcquireOk
    \/ CDeliver
    \/ CDeliverRespond

SpecConc == InitConc /\ [][NextConc]_vars

TypeOK ==
    /\ config \in [rhoseURL : ArgStr \cup EnvStr, clientID : ArgStr \cup EnvStr,
                    clientSecret : ArgStr \cup EnvStr, ssoURL : ArgStr \cup EnvStr,
                    authenticationEnabled : AuthValues]
    /\ cachedToken = Nil \/ cachedToken \in [ptr : {"set"}, AccessToken : AccessTokens]
    /\ used \in {"no", "yes"}
    /\ now \in 0..MaxTime
    /\ pc \in {"idle", "getToken", "acquiring", "deliver", "delivering", "crashed"}
    /\ call \in 0..2
    /\ handled \in 0..MaxEvents
    /\ result \in {"none", "nil", "error", "panic"}
    /\ Len(sent) <= 1
    /\ jwksLoads \in 0..2
    /\ jwksOK = TRUE

\* ------------------------------------------------------------ properties
\* a step of getToken up to its return or up to its call of client.Do
GetTokenStep == pc = "getToken" /\ (pc' # pc \/ call' # call)

\* the step in which the pending Acquirer call comes back
AcquireStep == pc = "acquiring" /\ pc' # pc

\* the Acquirer calls of the current dispatch made by getToken call k
AcqBy(k) == {i \in DOMAIN acqLog : acqLog[i].call = k}

\* the Validator rejected the cached record in getToken call k
Rejected(k) == \E i \in DOMAIN valLog : valLog[i] = [call |-> k, valid |-> FALSE]

\* C1 (as stated): in a dispatch with authentication enabled that found the
\* slot empty, the first getToken call acquires and populates the slot, the
\* second one reuses the cached token, and the dispatch makes exactly one
\* Acquirer call.
C1_Original ==
    (config.authenticationEnabled = "yes" /\ slot0 = Nil) =>
        /\ Len(acqLog) <= 1
        /\ (Len(how) >= 1 => how[1] = "acquired" /\ cachedToken # Nil)
        /\ (Len(how) = 2 => how[2] = "cached")

\* C1 (amended): in a dispatch with authentication enabled that found the
\* slot empty, a first getToken call that returns has made one successful
\* Acquirer call and populated the slot; if the token in the slot passes
\* validation when the second getToken call runs, that call returns it
\* without an Acquirer call, so the dispatch makes exactly one; if it does
\* not pass validation, the second call makes a second Acquirer call.
C1_DoubleResolution ==
    /\ []((config.authenticationEnabled = "yes" /\ slot0 = Nil /\ Len(how) >= 1) =>
            /\ how[1] = "acquired"
            /\ AcqBy(1) = {1}
            /\ acqLog[1].outcome = "ok"
            /\ cachedToken # Nil)
    /\ [][(GetTokenStep /\ call = 2 /\ config.authenticationEnabled = "yes"
           /\ slot0 = Nil) =>
            IF tokenValid(now, cachedToken.AccessToken)
            THEN /\ acqLog' = acqLog
                 /\ Len(acqLog) = 1
                 /\ cachedToken' = cachedToken
                 /\ token' = cachedToken.AccessToken
                 /\ pc' = "deliver"
            ELSE /\ Len(acqLog') = 2
                 /\ AcqBy(2)' = {2}
                 /\ pc' = "acquiring"]_vars

\* C1 witness: both getToken calls of such a dispatch returned, the first
\* by acquiring and the second from the cache, with one Acquirer call
C1_Witness ==
    /\ pc = "deliver"
    /\ config.authenticationEnabled = "yes"
    /\ slot0 = Nil
    /\ how = <<"acquired", "cached">>
    /\ Len(acqLog) = 1
    /\ token = cachedToken.AccessToken

\* C2: a getToken call that finds authentication enabled and a record in
\* the slot that passes validation makes no Acquirer call, leaves the slot
\* as it is and returns the cached record's access token.
C2_CacheReuse ==
    [][(GetTokenStep /\ config.authenticationEnabled = "yes" /\ cachedToken # Nil
        /\ tokenValid(now, cachedToken.AccessToken)) =>
         /\ acqLog' = acqLog
         /\ ssoReq' = ssoReq
         /\ cachedToken' = cachedToken
         /\ token' = cachedToken.AccessToken
         /\ how' = Append(how, "cached")
         /\ pc' # "acquiring"]_vars

\* C2 witness: a dispatch whose two getToken calls both reused the cached
\* token and that never called the Acquirer
C2_Witness ==
    /\ pc = "deliver"
    /\ how = <<"cached", "cached">>
    /\ acqLog = <<>>
    /\ ssoReq = NoRequest
    /\ token = cachedToken.AccessToken
    /\ cachedToken = slot0

\* C3: a getToken call that finds authentication enabled and a record in
\* the slot that fails validation calls the Acquirer exactly once; when the
\* call succeeds the slot holds the new record and the new record's access
\* token is returned.
C3_RefreshOnInvalid ==
    /\ [][(GetTokenStep /\ config.authenticationEnabled = "yes" /\ cachedToken # Nil
           /\ ~tokenValid(now, cachedToken.AccessToken)) =>
            /\ pc' = "acquiring"
            /\ Len(acqLog') = Len(acqLog) + 1
            /\ acqLog'[Len(acqLog')].call = call
            /\ Rejected(call)'
            /\ UNCHANGED <<cachedToken, token, how>>]_vars
    /\ [][(AcquireStep /\ Rejected(call)) =>
            /\ Len(acqLog') = Len(acqLog)
            /\ (acqLog'[Len(acqLog')].outcome = "ok" =>
                  /\ cachedToken' = AccessTokenResponse(acqLog'[Len(acqLog')].body)
                  /\ token' = acqLog'[Len(acqLog')].body
                  /\ how' = Append(how, "acquired"))]_vars
    /\ [](\A k \in 1..2 : Rejected(k) => Cardinality(AcqBy(k)) = 1)

\* C3 witness: the second getToken call found the record of the first one
\* invalid, acquired a different one, stored it and returned it
C3_Witness ==
    /\ pc = "deliver"
    /\ how = <<"acquired", "acquired">>
    /\ Rejected(2)
    /\ Len(acqLog) = 2
    /\ acqLog[2].body # acqLog[1].body
    /\ cachedToken = AccessTokenResponse(acqLog[2].body)
    /\ token = acqLog[2].body

\* C4: a getToken call that finds authentication enabled and the slot empty
\* calls the Acquirer exactly once and never the Validator; when the call
\* succeeds the slot holds the acquired record and its access token is
\* returned.
C4_RefreshOnEmpty ==
    /\ [][(GetTokenStep /\ config.authenticationEnabled = "yes" /\ cachedToken = Nil) =>
            /\ pc' = "acquiring"
            /\ valLog' = valLog
            /\ Len(acqLog') = Len(acqLog) + 1
            /\ acqLog'[Len(acqLog')].call = call
            /\ UNCHANGED <<cachedToken, token, how>>]_vars
    /\ [][(AcquireStep /\ cachedToken = Nil) =>
            /\ Len(acqLog') = Len(acqLog)
            /\ valLog' = valLog
            /\ IF acqLog'[Len(acqLog')].outcome = "ok"
               THEN /\ cachedToken' = AccessTokenResponse(acqLog'[Len(acqLog')].body)
                    /\ token' = acqLog'[Len(acqLog')].body
                    /\ how' = Append(how, "acquired")
               ELSE cachedToken' = Nil]_vars
    /\ [](\A k \in 1..2 : Cardinality(AcqBy(k)) <= 1)

\* C4 witness: the first getToken call of a dispatch found the slot empty,
\* acquired without validating, stored the record and returned its token
C4_Witness ==
    /\ pc = "getToken"
    /\ call = 2
    /\ slot0 = Nil
    /\ how = <<"acquired">>
    /\ valLog = <<>>
    /\ Len(acqLog) = 1
    /\ cachedToken = AccessTokenResponse(acqLog[1].body)
    /\ token = acqLog[1].body

\* C5: with authentication not enabled a getToken call returns the empty
\* token, leaves the slot and the used flag alone, runs no Validator and
\* sends nothing to the identity provider; the delivery request of the
\* dispatch has no Authorization header.
C5_DisabledAuth ==
    /\ [][(GetTokenStep /\ config.authenticationEnabled # "yes") =>
            /\ token' = NoToken
            /\ how' = Append(how, "disabled")
            /\ UNCHANGED <<cachedToken, used, acqLog, valLog, ssoReq>>]_vars
    /\ [](config.authenticationEnabled # "yes" =>
            \A i \in DOMAIN sent : sent[i].authorization = NoHeader)

\* C5 witness: a dispatch with authentication not enabled has sent its
\* delivery request, without the header and without any token activity
C5_Witness ==
    /\ pc = "delivering"
    /\ config.authenticationEnabled # "yes"
    /\ how = <<"disabled", "disabled">>
    /\ Len(sent) = 1
    /\ sent[1].authorization = NoHeader
    /\ acqLog = <<>>
    /\ valLog = <<>>
    /\ ssoReq = NoRequest

\* C6 (as stated): when the delivery request is answered with a non-success
\* status or the connection fails, sendMessage returns an error, after
\* exactly one delivery attempt.
C6_DeliveryFailureReported ==
    resp \in {"non2xx", "transport", "redirect"} =>
        (result = "error" /\ Len(sent) = 1)

\* C7: once an Acquirer call of a dispatch has failed (transport failure or
\* undecodable body), it is the last Acquirer call of that dispatch, the
\* dispatch is over with an error, and no delivery request was sent.
C7_AcquireFailureFatal ==
    \A i \in DOMAIN acqLog :
        acqLog[i].outcome \in {"transport", "decode"} =>
            /\ i = Len(acqLog)
            /\ pc = "idle"
            /\ result = "error"
            /\ sent = <<>>
            /\ resp = "none"

\* C7 witness: the Acquirer call of the second getToken call failed to
\* decode after the first one had succeeded, and the dispatch ended there
C7_Witness ==
    /\ Len(acqLog) = 2
    /\ acqLog[1].outcome = "ok"
    /\ acqLog[2].outcome = "decode"
    /\ result = "error"
    /\ pc = "idle"
    /\ sent = <<>>

\* sendMessage is running
InSendMessage == pc \in {"getToken", "acquiring", "deliver", "delivering"}

\* C8 (as stated): checkArgs lets no configuration through in which the
\* webhook URL is missing or authentication is enabled without client id,
\* client secret or SSO URL, so no request to the identity provider or to
\* the ingestion endpoint is made with a missing value.
C8_ConfigErrorsFirst ==
    /\ InSendMessage =>
         /\ config.rhoseURL # ""
         /\ (config.authenticationEnabled = "yes" =>
               /\ config.clientID # ""
               /\ config.clientSecret # ""
               /\ config.ssoURL # "")
    /\ ssoReq.made =>
         (ssoReq.url # "" /\ ssoReq.client_id # "" /\ ssoReq.client_secret # "")
    /\ \A i \in DOMAIN sent : sent[i].url # ""

\* C9 (as stated): with a webhook URL configured and authentication not
\* enabled, a handled event has had its delivery request sent, whatever
\* the client id, client secret and SSO URL, and nothing was sent to the
\* identity provider.
C9_DeliversWithoutAuth ==
    (pc \in {"idle", "crashed"} /\ handled > 0 /\ config.rhoseURL # ""
     /\ config.authenticationEnabled # "yes") =>
        (Len(sent) = 1 /\ ssoReq = NoRequest)

\* C10 (as stated): with authentication enabled the used flag tells how the
\* most recent getToken call resolved, "yes" for a reused cached token and
\* "no" for an acquisition, and so does the extension on the delivery
\* request for the token the request carries.
C10_FlagFollowsResolution ==
    /\ (config.authenticationEnabled = "yes" /\ Len(how) >= 1) =>
         (used = "yes" <=> how[Len(how)] = "cached")
    /\ \A i \in DOMAIN sent :
         config.authenticationEnabled = "yes" =>
            (sent[i].refreshed = "yes" <=> how[2] = "cached")

\* C11: a cached record that the Validator rejects never ends the getToken
\* call: the call goes on to the Acquirer without returning, and a dispatch
\* fails in getToken only on a failed Acquirer call; a rejected record whose
\* replacement was acquired makes the call return normally, and the process
\* ends abnormally only in the delivery.
C11_ValidationNeverFatal ==
    /\ [][(GetTokenStep /\ config.authenticationEnabled = "yes" /\ cachedToken # Nil
           /\ ~tokenValid(now, cachedToken.AccessToken)) =>
            /\ pc' = "acquiring"
            /\ acqLog' = Append(acqLog,
                           [call |-> call, outcome |-> "pending", body |-> NoToken])
            /\ UNCHANGED <<result, handled>>]_vars
    /\ []((pc = "idle" /\ result = "error" /\ argsErr = "nil" /\ resp = "none") =>
            /\ acqLog # <<>>
            /\ acqLog[Len(acqLog)].outcome \in {"transport", "decode"})
    /\ [](\A k \in 1..2 : \A i \in AcqBy(k) :
            (Rejected(k) /\ acqLog[i].outcome = "ok") =>
                (Len(how) >= k /\ how[k] = "acquired"))
    /\ [](pc = "crashed" => resp = "transport")

\* C11 witness: the first getToken call of a dispatch found a record in the
\* slot, the Validator rejected it, and the call returned an acquired token
C11_Witness ==
    /\ slot0 # Nil
    /\ Rejected(1)
    /\ Len(how) >= 1
    /\ how[1] = "acquired"
    /\ acqLog[1].outcome = "ok"
    /\ result = "none"

\* C12: a dispatch sends at most one delivery request, a getToken call
\* makes at most one Acquirer call, and after a network call has failed the
\* dispatch is over: the failed Acquirer call is the last entry of its log
\* and a failed delivery is the only delivery request.
C12_NothingRetried ==
    /\ Len(sent) <= 1
    /\ \A k \in 1..2 : Cardinality(AcqBy(k)) <= 1
    /\ Len(acqLog) <= 2
    /\ \A i \in DOMAIN acqLog :
         acqLog[i].outcome \in {"transport", "decode"} =>
            (i = Len(acqLog) /\ pc \notin {"getToken", "acquiring"})
    /\ resp \in {"non2xx", "transport", "redirect"} =>
         (Len(sent) = 1 /\ pc \in {"idle", "crashed"})

\* C12 witness: a dispatch made an Acquirer call in each getToken call, sent
\* its one delivery request and had it fail
C12_Witness ==
    /\ Len(acqLog) = 2
    /\ Cardinality(AcqBy(1)) = 1
    /\ Cardinality(AcqBy(2)) = 1
    /\ Len(sent) = 1
    /\ resp = "redirect"
    /\ pc = "idle"

\* C16: the Validator is called only by a getToken call that reads a
\* populated slot with authentication enabled, the Acquirer only by a
\* getToken call that read an empty slot or whose Validator call has just
\* rejected the record, and a delivery request exists only once both
\* getToken calls of the dispatch have returned and no Acquirer call failed.
C16_Ordering ==
    /\ [][Len(valLog') > Len(valLog) =>
            /\ pc = "getToken"
            /\ config.authenticationEnabled = "yes"
            /\ cachedToken # Nil
            /\ valLog'[Len(valLog')].call = call]_vars
    /\ [][Len(acqLog') > Len(acqLog) =>
            /\ pc = "getToken"
            /\ config.authenticationEnabled = "yes"
            /\ \/ cachedToken = Nil /\ valLog' = valLog
               \/ /\ cachedToken # Nil
                  /\ valLog' = Append(valLog, [call |-> call, valid |-> FALSE])]_vars
    /\ [](sent # <<>> =>
            /\ Len(how) = 2
            /\ \A i \in DOMAIN acqLog : acqLog[i].outcome = "ok")

\* C16 witness: a dispatch that started with an empty slot acquired in its
\* first getToken call, had the record rejected and acquired again in its
\* second, and then sent its delivery request
C16_Witness ==
    /\ slot0 = Nil
    /\ how = <<"acquired", "acquired">>
    /\ Rejected(2)
    /\ ~Rejected(1)
    /\ Len(sent) = 1

\* C17: when a dispatch with authentication enabled sends its delivery
\* request, the slot holds a record, the Authorization header carries that
\* record's access token, and the second getToken call of the dispatch either
\* had the Validator accept it or got it from its Acquirer call.
C17_DeliveredTokenIsCached ==
    [][(pc = "deliver" /\ pc' = "delivering" /\ config.authenticationEnabled = "yes") =>
        /\ cachedToken # Nil
        /\ sent' = <<[url |-> config.rhoseURL, refreshed |-> used,
                      authorization |-> Bearer(cachedToken.AccessToken)]>>
        /\ \/ /\ how[2] = "cached"
              /\ valLog # <<>>
              /\ valLog[Len(valLog)] = [call |-> 2, valid |-> TRUE]
           \/ /\ how[2] = "acquired"
              /\ acqLog # <<>>
              /\ acqLog[Len(acqLog)] = [call |-> 2, outcome |-> "ok",
                                        body |-> cachedToken.AccessToken]]_vars

\* C17 witness: a request was sent with authentication enabled whose token
\* the second getToken call had just acquired in place of another record
C17_Witness ==
    /\ pc = "delivering"
    /\ config.authenticationEnabled = "yes"
    /\ Len(how) = 2
    /\ how[2] = "acquired"
    /\ slot0 # Nil
    /\ cachedToken # slot0
    /\ sent[1].authorization = Bearer(cachedToken.AccessToken)

\* C18: an Acquirer call that ends in a transport error or an undecodable
\* body changes neither the slot nor the flag, nor does the step of getToken
\* that starts it; the slot changes only in the step in which a body is
\* decoded, and then to the record of that body.
C18_FailedAcquisitionKeepsState ==
    /\ [][(AcquireStep /\ acqLog'[Len(acqLog')].outcome \in {"transport", "decode"}) =>
            UNCHANGED <<cachedToken, used>>]_vars
    /\ [][(GetTokenStep /\ pc' = "acquiring") => UNCHANGED <<cachedToken, used>>]_vars
    /\ [][cachedToken' # cachedToken =>
            /\ AcquireStep
            /\ acqLog'[Len(acqLog')].outcome = "ok"
            /\ cachedToken' = AccessTokenResponse(acqLog'[Len(acqLog')].body)]_vars

\* C18 witness: with the flag "yes" and a record in the slot, a getToken call
\* had the record rejected and its Acquirer call failed, and slot and flag
\* are those of the start of the dispatch
C18_Witness ==
    /\ acqLog # <<>>
    /\ acqLog[Len(acqLog)].outcome \in {"transport", "decode"}
    /\ Rejected(acqLog[Len(acqLog)].call)
    /\ cachedToken # Nil
    /\ cachedToken = slot0
    /\ used = "yes"

\* C19: the flag is "no" as long as the slot is empty, changes only from
\* "no" to "yes" and only in a getToken step that returns the cached token,
\* is left alone by every Acquirer step, and a populated slot stays
\* populated.
C19_FlagAndSlotMonotone ==
    /\ [](cachedToken = Nil => used = "no")
    /\ [][used' # used =>
            /\ used = "no"
            /\ used' = "yes"
            /\ GetTokenStep
            /\ cachedToken # Nil
            /\ how' = Append(how, "cached")
            /\ token' = cachedToken.AccessToken]_vars
    /\ [][AcquireStep => used' = used]_vars
    /\ [][used = "yes" => used' = "yes"]_vars
    /\ [][cachedToken # Nil => cachedToken' # Nil]_vars

\* C19 witness: the flag was "yes" when a getToken call acquired a new
\* record, and it is still "yes"
C19_Witness ==
    /\ used = "yes"
    /\ how # <<>>
    /\ how[Len(how)] = "acquired"
    /\ slot0 # Nil
    /\ cachedToken # slot0

\* C14: the embedded key set is parsed at most once, whatever the number of
\* getToken calls: no dispatch has a second keyfunc.NewJSON call.
C14_KeySetLoadedOnce == jwksLoads <= 1

C13_Serialized ==
    /\ \A j \in DOMAIN wlog : wlog[j].saw = j - 1
    /\ \A th \in Threads :
         (tsent[th] # NoSend /\ config.authenticationEnabled = "yes") =>
            /\ tafter[th] # Nil
            /\ tsent[th].authorization = Bearer(tafter[th].AccessToken)

====
